---------------------------- MODULE Spec2Model ----------------------------
(***************************************************************************)
(* Population_dynamics_rk4: the model registry (PopulationModels), the     *)
(* right-hand-side builder (create_model_functions), the fixed-step RK4    *)
(* generators (RK4Solver) and the animation control of the application     *)
(* (AnimatedPopulationGUI), as state machines.                             *)
(*                                                                         *)
(* Numbers.  Python floats are modelled as exact rationals <<n, d>> in     *)
(* lowest terms with d > 0: rounding, inf and nan are not modelled.  A     *)
(* Python str is a sequence of one-character strings, so that str.replace  *)
(* and eval work on characters as the code does.                           *)
(***************************************************************************)
EXTENDS Integers, Sequences, FiniteSets, TLC

(***************************************************************************)
(* Float arithmetic (the operators + - * / of lines 167-173, 186-200 and   *)
(* of the evaluated equations).                                            *)
(***************************************************************************)
Abs(n) == IF n < 0 THEN -n ELSE n

RECURSIVE Gcd(_, _)
\* Euclid's algorithm, three divisions at a time.
Gcd(a, b) ==
  IF b = 0 THEN a
  ELSE IF a % b = 0 THEN b
  ELSE IF b % (a % b) = 0 THEN a % b
  ELSE Gcd(b % (a % b), (a % b) % (b % (a % b)))

Norm(n, d) ==
  LET g == Gcd(Abs(n), Abs(d))
      s == IF d < 0 THEN -1 ELSE 1
  IN  <<s * (n \div g), s * (d \div g)>>

R(n) == <<n, 1>>

RAdd(a, b) ==
  LET g == Gcd(a[2], b[2])
      l == (a[2] \div g) * b[2]
  IN  Norm(a[1] * (l \div a[2]) + b[1] * (l \div b[2]), l)

RNeg(a) == <<-a[1], a[2]>>

RSub(a, b) == RAdd(a, RNeg(b))

RMul(a, b) ==
  LET g1 == Gcd(Abs(a[1]), b[2])
      g2 == Gcd(Abs(b[1]), a[2])
  IN  Norm((a[1] \div g1) * (b[1] \div g2), (a[2] \div g2) * (b[2] \div g1))

\* a / b for b # 0 (Python raises ZeroDivisionError for b = 0: see Apply).
RDiv(a, b) == RMul(a, Norm(b[2], b[1]))

\* int(x): truncation toward zero.
RTrunc(a) == IF a[1] >= 0 THEN a[1] \div a[2] ELSE -((-a[1]) \div a[2])

(***************************************************************************)
(* Strings.                                                                *)
(***************************************************************************)
DigitChars == <<"0", "1", "2", "3", "4", "5", "6", "7", "8", "9">>

Digits == {DigitChars[i] : i \in 1..10}

DigitVal(c) == (CHOOSE i \in 1..10 : DigitChars[i] = c) - 1

Letters ==
  {"a", "b", "c", "d", "e", "f", "g", "h", "i", "j", "k", "l", "m",
   "n", "o", "p", "q", "r", "s", "t", "u", "v", "w", "x", "y", "z",
   "A", "B", "C", "D", "E", "F", "G", "H", "I", "J", "K", "L", "M",
   "N", "O", "P", "Q", "R", "S", "T", "U", "V", "W", "X", "Y", "Z", "_"}

OpChars == {"+", "-", "*", "/", "(", ")"}

\* s[i .. i + Len(p) - 1] = p
MatchAt(s, i, p) ==
  /\ i + Len(p) - 1 <= Len(s)
  /\ \A k \in 1..Len(p) : s[i + k - 1] = p[k]

\* str.replace(old, new): every non-overlapping occurrence of old, found
\* left to right, is replaced by new (old is never empty here).  The scan
\* goes from one occurrence to the next.
Matches(s, i, old) == {k \in i..Len(s) : MatchAt(s, k, old)}

FirstOf(S) == CHOOSE k \in S : \A m \in S : k <= m

RECURSIVE ReplaceFrom(_, _, _, _)
ReplaceAt(s, i, old, new, k) ==
  SubSeq(s, i, k - 1) \o new \o ReplaceFrom(s, k + Len(old), old, new)

ReplaceFrom(s, i, old, new) ==
  IF Matches(s, i, old) = {} THEN SubSeq(s, i, Len(s))
  ELSE ReplaceAt(s, i, old, new, FirstOf(Matches(s, i, old)))

Replace(s, old, new) == ReplaceFrom(s, 1, old, new)

RECURSIVE NatStr(_)
NatStr(n) ==
  IF n < 10 THEN <<DigitChars[n + 1]>>
  ELSE NatStr(n \div 10) \o <<DigitChars[(n % 10) + 1]>>

\* The digits of the fraction r / d (0 <= r < d, d a divisor of a power of
\* ten) after the decimal point, without trailing zeros.
RECURSIVE FracStr(_, _)
FracStr(r, d) ==
  IF r = 0 THEN <<>>
  ELSE <<DigitChars[((10 * r) \div d) + 1]>> \o FracStr((10 * r) % d, d)

\* str(value) of a float: repr gives the shortest decimal that reads back
\* to the same float, always with a decimal point ("2.0", "0.5", "-1.25").
\* The exponent form (|v| < 1e-4 or |v| >= 1e16) is outside the values used.
FloatStr(v) ==
  LET a  == Abs(v[1])
      ip == a \div v[2]
      fr == FracStr(a % v[2], v[2])
  IN  (IF v[1] < 0 THEN <<"-">> ELSE <<>>)
      \o NatStr(ip) \o <<".">> \o (IF fr = <<>> THEN <<"0">> ELSE fr)

(***************************************************************************)
(* eval(eq, env): the Python expression evaluator, for the expressions the *)
(* equations use: numbers, names, + - * /, unary minus and parentheses.    *)
(* A result is [err |-> "", val |-> <<n, d>>] or [err |-> <exception>].    *)
(***************************************************************************)
Val(v) == [err |-> "", val |-> v]

Err(e) == [err |-> e, val |-> <<0, 1>>]

\* The first index j >= i with s[j] \notin S, or Len(s) + 1.
ScanWhile(s, i, S) ==
  CHOOSE j \in i..(Len(s) + 1) :
    /\ \A k \in i..(j - 1) : s[k] \in S
    /\ j = Len(s) + 1 \/ s[j] \notin S

RECURSIVE DigitsVal(_, _, _, _)
DigitsVal(s, i, j, acc) ==
  IF i >= j THEN acc ELSE DigitsVal(s, i + 1, j, 10 * acc + DigitVal(s[i]))

RECURSIVE Pow10(_)
Pow10(k) == IF k = 0 THEN 1 ELSE 10 * Pow10(k - 1)

\* Tokens: [k |-> "num", v |-> <<n, d>>, s |-> <<>>],
\*         [k |-> "id",  v |-> <<0, 1>>, s |-> name],
\*         [k |-> "op",  v |-> <<0, 1>>, s |-> <<c>>];
\* a lexical error is the one-token sequence <<[k |-> "bad", ...]>>.
Tok(k, v, s) == [k |-> k, v |-> v, s |-> s]

BadToks == <<Tok("bad", <<0, 1>>, <<>>)>>

\* A number literal starting at s[i]: digits, then optionally "." and
\* digits.  A name character right after it is a SyntaxError (invalid
\* decimal literal), and so is an integer literal with a leading zero; the
\* exponent, complex and underscore forms do not occur in the inputs used.
NumberEnd(s, i) ==
  LET j == ScanWhile(s, i, Digits)
  IN  IF j <= Len(s) /\ s[j] = "." THEN ScanWhile(s, j + 1, Digits) ELSE j

NumberOk(s, i) ==
  LET j == ScanWhile(s, i, Digits)
      e == NumberEnd(s, i)
  IN  /\ ~(e <= Len(s) /\ s[e] \in Letters)
      /\ (j = e /\ j - i > 1 /\ s[i] = "0")
            => \A k \in i..(j - 1) : s[k] = "0"
      /\ ~(j = i /\ e = j + 1)

NumberVal(s, i) ==
  LET j == ScanWhile(s, i, Digits)
      e == NumberEnd(s, i)
  IN  IF e = j THEN R(DigitsVal(s, i, j, 0))
      ELSE RAdd(R(DigitsVal(s, i, j, 0)),
                Norm(DigitsVal(s, j + 1, e, 0), Pow10(e - j - 1)))

\* The token that starts at s[i], and the index after it.
TokenEnd(s, i) ==
  IF s[i] \in Digits \/ s[i] = "." THEN NumberEnd(s, i)
  ELSE IF s[i] \in Letters THEN ScanWhile(s, i, Letters \cup Digits)
  ELSE i + 1

TokenAt(s, i) ==
  IF s[i] \in Digits \/ s[i] = "."
  THEN IF NumberOk(s, i) THEN Tok("num", NumberVal(s, i), <<>>)
       ELSE Tok("bad", <<0, 1>>, <<>>)
  ELSE IF s[i] \in Letters
  THEN Tok("id", <<0, 1>>, SubSeq(s, i, TokenEnd(s, i) - 1))
  ELSE IF s[i] \in OpChars THEN Tok("op", <<0, 1>>, <<s[i]>>)
  ELSE Tok("bad", <<0, 1>>, <<>>)

\* The indices at which the tokens of s start: the least set that holds the
\* first non-blank index and, with i, the first non-blank index from the end
\* of the token at i on.  A blank separates tokens, so i starts a token iff
\* s[i] is not blank and no token that starts before i reaches over i; a
\* token reaches over i only if it is the name or the number that the run of
\* name and number characters around i begins with, or one that follows it.
SkipBlank(s, i) == ScanWhile(s, i, {" "})

RunStart(s, i) ==
  CHOOSE j \in 1..i :
    /\ \A k \in j..i : s[k] \in Letters \cup Digits \cup {"."}
    /\ j = 1 \/ s[j - 1] \notin Letters \cup Digits \cup {"."}

\* Within one run the tokens are found one after the other; a run holds at
\* most a few of them.
RECURSIVE RunStarts(_, _, _)
RunStarts(s, j, i) ==
  IF j > i THEN {} ELSE {j} \cup RunStarts(s, TokenEnd(s, j), i)

IsStart(s, i) ==
  /\ s[i] # " "
  /\ s[i] \in Letters \cup Digits \cup {"."} => i \in RunStarts(s, RunStart(s, i), i)

Starts(s) == {i \in 1..Len(s) : IsStart(s, i)}

Nth(S, k) == CHOOSE i \in S : Cardinality({q \in S : q < i}) = k - 1

TokensAt(s, S) == [k \in 1..Cardinality(S) |-> TokenAt(s, Nth(S, k))] \o <<>>

Checked(ts) ==
  IF \E k \in 1..Len(ts) : ts[k].k = "bad" THEN BadToks ELSE ts

Tokenize(s) == Checked(TokensAt(s, Starts(s)))

\* env is a sequence of <<name, value>> bindings (the globals dict of eval).
\* Every dict passed to eval also binds "np" to the numpy module, on which
\* the arithmetic of an equation raises TypeError; the names of Python's
\* builtins do not occur in the equations used.
RECURSIVE Lookup(_, _, _)
Lookup(env, name, i) ==
  IF i > Len(env)
  THEN IF name = <<"n", "p">> THEN Err("TypeError") ELSE Err("NameError")
  ELSE IF env[i][1] = name THEN Val(env[i][2])
  ELSE Lookup(env, name, i + 1)

\* A binary operation on two evaluated operands: Python evaluates the left
\* operand, then the right one, then applies the operator; a SyntaxError
\* is raised by the compiler before anything is evaluated.
Apply(op, a, b) ==
  IF a.err = "SyntaxError" \/ b.err = "SyntaxError" THEN Err("SyntaxError")
  ELSE IF a.err # "" THEN a
  ELSE IF b.err # "" THEN b
  ELSE IF op = "+" THEN Val(RAdd(a.val, b.val))
  ELSE IF op = "-" THEN Val(RSub(a.val, b.val))
  ELSE IF op = "*" THEN Val(RMul(a.val, b.val))
  ELSE IF b.val[1] = 0 THEN Err("ZeroDivisionError")
  ELSE Val(RDiv(a.val, b.val))

Negate(a) == IF a.err # "" THEN a ELSE Val(RNeg(a.val))

\* The compiled expression is a tree of nodes [k, v, s, kids]: "num" (v),
\* "name" (s), "neg" (one kid), "bin" (s the operator, two kids); an
\* expression the compiler rejects is the node "bad".
Node(k, v, s, kids) == [k |-> k, v |-> v, s |-> s, kids |-> kids]

BadNode == Node("bad", <<0, 1>>, <<>>, <<>>)

Bin(op, l, r) ==
  IF l.k = "bad" \/ r.k = "bad" THEN BadNode
  ELSE Node("bin", <<0, 1>>, <<op>>, <<l, r>>)

Neg(a) == IF a.k = "bad" THEN BadNode ELSE Node("neg", <<0, 1>>, <<>>, <<a>>)

OpAt(ts, k, ops) == ts[k].k = "op" /\ ts[k].s[1] \in ops

\* The number of parentheses open at ts[k], counted from ts[lo].
Level(ts, lo, k) ==
  Cardinality({j \in lo..(k - 1) : OpAt(ts, j, {"("})})
    - Cardinality({j \in lo..(k - 1) : OpAt(ts, j, {")"})})

EndsOperand(t) == t.k \in {"num", "id"} \/ (t.k = "op" /\ t.s = <<")">>)

\* The binary + and - of ts[lo..hi] outside parentheses: a sign that follows
\* an operand.  The * and / outside parentheses.
AddOps(ts, lo, hi) ==
  {k \in (lo + 1)..hi : /\ OpAt(ts, k, {"+", "-"})
                        /\ EndsOperand(ts[k - 1])
                        /\ Level(ts, lo, k) = 0}

MulOps(ts, lo, hi) ==
  {k \in lo..hi : OpAt(ts, k, {"*", "/"}) /\ Level(ts, lo, k) = 0}

LastOf(S) == CHOOSE k \in S : \A m \in S : m <= k

\* Python's grammar for the expressions used: sums of products of signed
\* factors, all operators left-associative.  ts[lo..hi] is split at its last
\* additive operator outside parentheses, else at its last multiplicative
\* one, else it is a signed factor, a parenthesised expression, a number or
\* a name.
RECURSIVE Parse(_, _, _)
Split(ts, lo, hi, k) ==
  Bin(ts[k].s[1], Parse(ts, lo, k - 1), Parse(ts, k + 1, hi))

Parse(ts, lo, hi) ==
  IF lo > hi THEN BadNode
  ELSE IF AddOps(ts, lo, hi) # {}
  THEN Split(ts, lo, hi, LastOf(AddOps(ts, lo, hi)))
  ELSE IF MulOps(ts, lo, hi) # {}
  THEN Split(ts, lo, hi, LastOf(MulOps(ts, lo, hi)))
  ELSE IF OpAt(ts, lo, {"-"}) THEN Neg(Parse(ts, lo + 1, hi))
  ELSE IF OpAt(ts, lo, {"+"}) THEN Parse(ts, lo + 1, hi)
  ELSE IF OpAt(ts, lo, {"("}) /\ OpAt(ts, hi, {")"})
  THEN Parse(ts, lo + 1, hi - 1)
  ELSE IF lo < hi THEN BadNode
  ELSE IF ts[lo].k = "num" THEN Node("num", ts[lo].v, <<>>, <<>>)
  ELSE IF ts[lo].k = "id" THEN Node("name", <<0, 1>>, ts[lo].s, <<>>)
  ELSE BadNode

CompileTokens(ts) == IF ts = BadToks THEN BadNode ELSE Parse(ts, 1, Len(ts))

Compile(eq) == CompileTokens(Tokenize(eq))

RECURSIVE Run(_, _)
Run(n, env) ==
  IF n.k = "num" THEN Val(n.v)
  ELSE IF n.k = "name" THEN Lookup(env, n.s, 1)
  ELSE IF n.k = "neg" THEN Negate(Run(n.kids[1], env))
  ELSE IF n.k = "bin"
  THEN Apply(n.s[1], Run(n.kids[1], env), Run(n.kids[2], env))
  ELSE Err("SyntaxError")

\* eval(eq, env) compiles eq and evaluates the result, at every call.
Eval(eq, env) == Run(Compile(eq), env)

(***************************************************************************)
(* PopulationModels.models: the registry.  Only the fields the solver, the *)
(* builder and the application read are kept; a number is <<"int", v>> or  *)
(* <<"float", v>> as the literal in the source is.                         *)
(***************************************************************************)
\* A variant of Logistic whose capacity is named Kr, a name that contains r.
LogisticClash ==
  \* "r*x*(1 - x/Kr)"
  [equations |-> <<
     <<"r", "*", "x", "*", "(", "1", " ", "-", " ", "x", "/", "K", "r", ")">>
   >>,
   parameters |-> <<<<"r">>, <<"K", "r">>>>,
   param_defaults |-> <<<<"float", <<1, 2>>>>, <<"int", <<100, 1>>>>>>,
   initial_conditions |-> <<<<"x", "0">>>>,
   ic_defaults |-> <<<<"int", <<10, 1>>>>>>,
   variables |-> <<<<"x">>>>,
   n_var_names |-> 1,
   type |-> "single"]

Logistic ==
  \* "r*x*(1 - x/K)"
  [equations |-> <<
     <<"r", "*", "x", "*", "(", "1", " ", "-", " ", "x", "/", "K", ")">>
   >>,
   parameters |-> <<<<"r">>, <<"K">>>>,
   param_defaults |-> <<<<"float", <<1, 2>>>>, <<"int", <<100, 1>>>>>>,
   initial_conditions |-> <<<<"x", "0">>>>,
   ic_defaults |-> <<<<"int", <<10, 1>>>>>>,
   variables |-> <<<<"x">>>>,
   n_var_names |-> 1,
   type |-> "single"]

\* A variant of LotkaVolterra that lacks the second equation.
LotkaVolterraOneEquation ==
  [equations |-> <<
     <<"a", "*", "x", " ", "-", " ", "b", "*", "x", "*", "y">>
   >>,
   parameters |-> <<<<"a">>, <<"b">>, <<"c">>, <<"d">>>>,
   param_defaults |-> <<<<"float", <<1, 1>>>>, <<"float", <<1, 2>>>>, <<"float", <<3, 10>>>>, <<"float", <<4, 5>>>>>>,
   initial_conditions |-> <<<<"x", "0">>, <<"y", "0">>>>,
   ic_defaults |-> <<<<"int", <<10, 1>>>>, <<"int", <<5, 1>>>>>>,
   variables |-> <<<<"x">>, <<"y">>>>,
   n_var_names |-> 2,
   type |-> "system"]

LotkaVolterra ==
  \* "a*x - b*x*y"
  \* "c*x*y - d*y"
  [equations |-> <<
     <<"a", "*", "x", " ", "-", " ", "b", "*", "x", "*", "y">>,
     <<"c", "*", "x", "*", "y", " ", "-", " ", "d", "*", "y">>
   >>,
   parameters |-> <<<<"a">>, <<"b">>, <<"c">>, <<"d">>>>,
   param_defaults |-> <<<<"float", <<1, 1>>>>, <<"float", <<1, 2>>>>, <<"float", <<3, 10>>>>, <<"float", <<4, 5>>>>>>,
   initial_conditions |-> <<<<"x", "0">>, <<"y", "0">>>>,
   ic_defaults |-> <<<<"int", <<10, 1>>>>, <<"int", <<5, 1>>>>>>,
   variables |-> <<<<"x">>, <<"y">>>>,
   n_var_names |-> 2,
   type |-> "system"]

Competition ==
  \* "r1*x*(1 - (x + alpha*y)/K1)"
  \* "r2*y*(1 - (y + beta*x)/K2)"
  [equations |-> <<
     <<"r", "1", "*", "x", "*", "(", "1", " ", "-", " ", "(", "x", " ", "+", " ", "a", "l", "p", "h", "a", "*", "y", ")", "/", "K", "1", ")">>,
     <<"r", "2", "*", "y", "*", "(", "1", " ", "-", " ", "(", "y", " ", "+", " ", "b", "e", "t", "a", "*", "x", ")", "/", "K", "2", ")">>
   >>,
   parameters |-> <<<<"r", "1">>, <<"r", "2">>, <<"K", "1">>, <<"K", "2">>, <<"a", "l", "p", "h", "a">>, <<"b", "e", "t", "a">>>>,
   param_defaults |-> <<<<"float", <<1, 1>>>>, <<"float", <<4, 5>>>>, <<"int", <<100, 1>>>>, <<"int", <<80, 1>>>>, <<"float", <<1, 2>>>>, <<"float", <<3, 5>>>>>>,
   initial_conditions |-> <<<<"x", "0">>, <<"y", "0">>>>,
   ic_defaults |-> <<<<"int", <<20, 1>>>>, <<"int", <<15, 1>>>>>>,
   variables |-> <<<<"x">>, <<"y">>>>,
   n_var_names |-> 2,
   type |-> "system"]

\* A variant of Sir whose infected class loses nobody to recovery.
SirUnbalanced ==
  [equations |-> <<
     <<"-", "b", "e", "t", "a", "*", "S", "*", "I", "/", "N">>,
     <<"b", "e", "t", "a", "*", "S", "*", "I", "/", "N">>,
     <<"g", "a", "m", "m", "a", "*", "I">>
   >>,
   parameters |-> <<<<"b", "e", "t", "a">>, <<"g", "a", "m", "m", "a">>, <<"N">>>>,
   param_defaults |-> <<<<"float", <<3, 10>>>>, <<"float", <<1, 10>>>>, <<"int", <<1000, 1>>>>>>,
   initial_conditions |-> <<<<"S", "0">>, <<"I", "0">>, <<"R", "0">>>>,
   ic_defaults |-> <<<<"int", <<990, 1>>>>, <<"int", <<10, 1>>>>, <<"int", <<0, 1>>>>>>,
   variables |-> <<<<"S">>, <<"I">>, <<"R">>>>,
   n_var_names |-> 3,
   type |-> "system"]

Sir ==
  \* "-beta*S*I/N"
  \* "beta*S*I/N - gamma*I"
  \* "gamma*I"
  [equations |-> <<
     <<"-", "b", "e", "t", "a", "*", "S", "*", "I", "/", "N">>,
     <<"b", "e", "t", "a", "*", "S", "*", "I", "/", "N", " ", "-", " ", "g", "a", "m", "m", "a", "*", "I">>,
     <<"g", "a", "m", "m", "a", "*", "I">>
   >>,
   parameters |-> <<<<"b", "e", "t", "a">>, <<"g", "a", "m", "m", "a">>, <<"N">>>>,
   param_defaults |-> <<<<"float", <<3, 10>>>>, <<"float", <<1, 10>>>>, <<"int", <<1000, 1>>>>>>,
   initial_conditions |-> <<<<"S", "0">>, <<"I", "0">>, <<"R", "0">>>>,
   ic_defaults |-> <<<<"int", <<990, 1>>>>, <<"int", <<10, 1>>>>, <<"int", <<0, 1>>>>>>,
   variables |-> <<<<"S">>, <<"I">>, <<"R">>>>,
   n_var_names |-> 3,
   type |-> "system"]

\* A variant of Metapopulation whose parameter list lacks the migration
\* rate m.
MetapopulationNoRate ==
  [equations |-> <<
     <<"r", "1", "*", "x", "*", "(", "1", " ", "-", " ", "x", "/", "K", "1", ")", " ", "+", " ", "m", "*", "(", "y", " ", "-", " ", "x", ")">>,
     <<"r", "2", "*", "y", "*", "(", "1", " ", "-", " ", "y", "/", "K", "2", ")", " ", "+", " ", "m", "*", "(", "x", " ", "-", " ", "y", ")">>
   >>,
   parameters |-> <<<<"r", "1">>, <<"r", "2">>, <<"K", "1">>, <<"K", "2">>>>,
   param_defaults |-> <<<<"float", <<4, 5>>>>, <<"float", <<3, 5>>>>, <<"int", <<100, 1>>>>, <<"int", <<80, 1>>>>>>,
   initial_conditions |-> <<<<"x", "0">>, <<"y", "0">>>>,
   ic_defaults |-> <<<<"int", <<50, 1>>>>, <<"int", <<30, 1>>>>>>,
   variables |-> <<<<"x">>, <<"y">>>>,
   n_var_names |-> 2,
   type |-> "system"]

Metapopulation ==
  \* "r1*x*(1 - x/K1) + m*(y - x)"
  \* "r2*y*(1 - y/K2) + m*(x - y)"
  [equations |-> <<
     <<"r", "1", "*", "x", "*", "(", "1", " ", "-", " ", "x", "/", "K", "1", ")", " ", "+", " ", "m", "*", "(", "y", " ", "-", " ", "x", ")">>,
     <<"r", "2", "*", "y", "*", "(", "1", " ", "-", " ", "y", "/", "K", "2", ")", " ", "+", " ", "m", "*", "(", "x", " ", "-", " ", "y", ")">>
   >>,
   parameters |-> <<<<"r", "1">>, <<"r", "2">>, <<"K", "1">>, <<"K", "2">>, <<"m">>>>,
   param_defaults |-> <<<<"float", <<4, 5>>>>, <<"float", <<3, 5>>>>, <<"int", <<100, 1>>>>, <<"int", <<80, 1>>>>, <<"float", <<1, 10>>>>>>,
   initial_conditions |-> <<<<"x", "0">>, <<"y", "0">>>>,
   ic_defaults |-> <<<<"int", <<50, 1>>>>, <<"int", <<30, 1>>>>>>,
   variables |-> <<<<"x">>, <<"y">>>>,
   n_var_names |-> 2,
   type |-> "system"]

\* The keys in registration order (the order of the dict).
ModelKeys == <<"logistic", "lotka_volterra", "competition", "sir", "metapopulation">>

Registry ==
  [k \in {ModelKeys[i] : i \in 1..Len(ModelKeys)} |->
     CASE k = "logistic" -> Logistic
       [] k = "lotka_volterra" -> LotkaVolterra
       [] k = "competition" -> Competition
       [] k = "sir" -> Sir
       [] k = "metapopulation" -> Metapopulation]

(***************************************************************************)
(* AnimatedPopulationGUI.create_model_functions.  `parameters` is the dict *)
(* as the sequence of its items, <<name, float>>, in insertion order.  A   *)
(* built function is the closure [eq, args, variadic]: the substituted     *)
(* equation and the names its positional arguments are bound to.           *)
(***************************************************************************)
\* for param, value in parameters.items():
\*     eq_eval = eq_eval.replace(param, str(value))
RECURSIVE Substitute(_, _, _)
Substitute(eq_eval, parameters, i) ==
  IF i > Len(parameters) THEN eq_eval
  ELSE Substitute(Replace(eq_eval, parameters[i][1], FloatStr(parameters[i][2])),
                  parameters, i + 1)

\* A built function: the lambda's arguments and the string it passes to eval.
\* eval compiles that same string at every call; code is what it compiles to.
Closure(eq, args, variadic) ==
  [eq |-> eq, args |-> args, variadic |-> variadic, code |-> Compile(eq)]

MakeFunction(model_info, eq_eval) ==
  IF model_info.type = "single" THEN Closure(eq_eval, <<<<"x">>>>, FALSE)
  ELSE IF Len(model_info.variables) = 2
       THEN Closure(eq_eval, <<<<"x">>, <<"y">>>>, FALSE)
  ELSE IF Len(model_info.variables) = 3
       THEN Closure(eq_eval, <<<<"S">>, <<"I">>, <<"R">>>>, FALSE)
  ELSE Closure(eq_eval, model_info.variables, TRUE)

\* The result: [err |-> "", fns |-> the functions] or [err |-> "KeyError"].
create_model_functions(models, model_key, parameters) ==
  IF model_key \notin DOMAIN models THEN [err |-> "KeyError", fns |-> <<>>]
  ELSE LET model_info == models[model_key]
       IN  [err |-> "",
            fns |-> [j \in 1..Len(model_info.equations) |->
                       MakeFunction(model_info,
                         Substitute(model_info.equations[j], parameters, 1))]]

\* f(t, *xs): a lambda takes exactly its declared arguments (TypeError
\* otherwise); the general-case function reads args[i] for each variable
\* (IndexError when there are too few) and ignores the rest.
Call(f, t, xs) ==
  IF ~f.variadic /\ Len(xs) # Len(f.args) THEN Err("TypeError")
  ELSE IF f.variadic /\ Len(xs) < Len(f.args) THEN Err("IndexError")
  ELSE Run(f.code, [i \in 1..Len(f.args) |-> <<f.args[i], xs[i]>>]
                     \o << <<<<"t">>, t>> >>)

(***************************************************************************)
(* RK4Solver: one step of each generator's loop body.  A step returns      *)
(* [err, vals, calls]: the exception raised ("" for none), the new state   *)
(* and the right-hand-side calls made, in order, each [st, fn, t, args]    *)
(* (stage 1..4, index of the function, its arguments).                     *)
(***************************************************************************)
Half(a) == RDiv(a, R(2))

\* [h * f(t, *vals) for f in functions]: the results up to and including
\* the first call that raises.
StageHead(h, r) == IF r.err # "" THEN r ELSE Val(RMul(h, r.val))

RECURSIVE StageK(_, _, _, _, _)
StageK(functions, h, t, vals, j) ==
  IF j > Len(functions) THEN <<>>
  ELSE LET r == StageHead(h, Call(functions[j], t, vals))
       IN  IF r.err # "" THEN <<r>>
           ELSE <<r>> \o StageK(functions, h, t, vals, j + 1)

StageErr(k) == IF k # <<>> /\ k[Len(k)].err # "" THEN k[Len(k)].err ELSE ""

StageCalls(st, functions, t, vals) ==
  [j \in 1..Len(functions) |-> [st |-> st, fn |-> j, t |-> t, args |-> vals]]

\* cs ends with the calls of a stage on every function; k holds the results of
\* the calls that stage made before it raised.
MadeCalls(cs, functions, k) == SubSeq(cs, 1, Len(cs) - Len(functions) + Len(k))

StepResult(err, vals, calls) == [err |-> err, vals |-> vals, calls |-> calls]

\* A variant of Weighted that averages the four stages with equal weights.
WeightedEqually(k1, k2, k3, k4) ==
  RDiv(RAdd(RAdd(RAdd(k1, k2), k3), k4), R(4))

\* (k1 + 2 * k2 + 2 * k3 + k4) / 6
Weighted(k1, k2, k3, k4) ==
  RDiv(RAdd(RAdd(RAdd(k1, RMul(R(2), k2)), RMul(R(2), k3)), k4), R(6))

\* solve_single_ode_animated, lines 167-172.  Each operator takes the stage
\* just evaluated (k, at the state v) and goes on to the next line; cs are
\* the calls made before it.
SingleK4(x_curr, k1, k2, k3, cs, k4) ==
  IF StageErr(k4) # "" THEN StepResult(StageErr(k4), <<x_curr>>, cs)
  ELSE StepResult("",
         <<RAdd(x_curr, Weighted(k1[1].val, k2[1].val, k3[1].val, k4[1].val))>>,
         cs)

\* A variant of SingleK3 whose fourth stage is taken at t_curr + h / 2.
SingleK3HalfTime(f, h, t_curr, x_curr, k1, k2, cs, k3) ==
  IF StageErr(k3) # "" THEN StepResult(StageErr(k3), <<x_curr>>, cs)
  ELSE LET t4 == RAdd(t_curr, Half(h))
           v4 == <<RAdd(x_curr, k3[1].val)>>
       IN  SingleK4(x_curr, k1, k2, k3,
                    cs \o StageCalls(4, <<f>>, t4, v4),
                    StageK(<<f>>, h, t4, v4, 1))

SingleK3(f, h, t_curr, x_curr, k1, k2, cs, k3) ==
  IF StageErr(k3) # "" THEN StepResult(StageErr(k3), <<x_curr>>, cs)
  ELSE LET t4 == RAdd(t_curr, h)
           v4 == <<RAdd(x_curr, k3[1].val)>>
       IN  SingleK4(x_curr, k1, k2, k3,
                    cs \o StageCalls(4, <<f>>, t4, v4),
                    StageK(<<f>>, h, t4, v4, 1))

SingleK2(f, h, t_curr, x_curr, k1, cs, k2) ==
  IF StageErr(k2) # "" THEN StepResult(StageErr(k2), <<x_curr>>, cs)
  ELSE LET t3 == RAdd(t_curr, Half(h))
           v3 == <<RAdd(x_curr, Half(k2[1].val))>>
       IN  SingleK3(f, h, t_curr, x_curr, k1, k2,
                    cs \o StageCalls(3, <<f>>, t3, v3),
                    StageK(<<f>>, h, t3, v3, 1))

SingleK1(f, h, t_curr, x_curr, cs, k1) ==
  IF StageErr(k1) # "" THEN StepResult(StageErr(k1), <<x_curr>>, cs)
  ELSE LET t2 == RAdd(t_curr, Half(h))
           v2 == <<RAdd(x_curr, Half(k1[1].val))>>
       IN  SingleK2(f, h, t_curr, x_curr, k1,
                    cs \o StageCalls(2, <<f>>, t2, v2),
                    StageK(<<f>>, h, t2, v2, 1))

SingleStep(f, h, t_curr, x_curr) ==
  SingleK1(f, h, t_curr, x_curr,
           StageCalls(1, <<f>>, t_curr, <<x_curr>>),
           StageK(<<f>>, h, t_curr, <<x_curr>>, 1))

\* solve_system_ode_animated, lines 186-198.  k[i] for i in range(n_vars)
\* raises IndexError when there are fewer functions than state variables.
\* A stage that raises has made the calls up to the raising one.
SystemK4(functions, n_vars, curr_vals, k1, k2, k3, cs, k4) ==
  IF StageErr(k4) # ""
  THEN StepResult(StageErr(k4), curr_vals, MadeCalls(cs, functions, k4))
  ELSE StepResult("",
         [i \in 1..n_vars |->
            RAdd(curr_vals[i],
                 Weighted(k1[i].val, k2[i].val, k3[i].val, k4[i].val))],
         cs)

SystemK3(functions, n_vars, h, t_curr, curr_vals, k1, k2, cs, k3) ==
  IF StageErr(k3) # ""
  THEN StepResult(StageErr(k3), curr_vals, MadeCalls(cs, functions, k3))
  ELSE LET t4 == RAdd(t_curr, h)
           k4_vals == [i \in 1..n_vars |-> RAdd(curr_vals[i], k3[i].val)]
       IN  SystemK4(functions, n_vars, curr_vals, k1, k2, k3,
                    cs \o StageCalls(4, functions, t4, k4_vals),
                    StageK(functions, h, t4, k4_vals, 1))

SystemK2(functions, n_vars, h, t_curr, curr_vals, k1, cs, k2) ==
  IF StageErr(k2) # ""
  THEN StepResult(StageErr(k2), curr_vals, MadeCalls(cs, functions, k2))
  ELSE LET t3 == RAdd(t_curr, Half(h))
           k3_vals == [i \in 1..n_vars |-> RAdd(curr_vals[i], Half(k2[i].val))]
       IN  SystemK3(functions, n_vars, h, t_curr, curr_vals, k1, k2,
                    cs \o StageCalls(3, functions, t3, k3_vals),
                    StageK(functions, h, t3, k3_vals, 1))

\* A variant of SystemK1 whose second stage moves the first variable only.
SystemK1FirstOnly(functions, n_vars, h, t_curr, curr_vals, cs, k1) ==
  IF StageErr(k1) # "" THEN StepResult(StageErr(k1), curr_vals, MadeCalls(cs, functions, k1))
  ELSE IF Len(functions) < n_vars THEN StepResult("IndexError", curr_vals, cs)
  ELSE LET t2 == RAdd(t_curr, Half(h))
           k2_vals == [i \in 1..n_vars |->
                         IF i = 1 THEN RAdd(curr_vals[i], Half(k1[i].val))
                         ELSE curr_vals[i]]
       IN  SystemK2(functions, n_vars, h, t_curr, curr_vals, k1,
                    cs \o StageCalls(2, functions, t2, k2_vals),
                    StageK(functions, h, t2, k2_vals, 1))

SystemK1(functions, n_vars, h, t_curr, curr_vals, cs, k1) ==
  IF StageErr(k1) # "" THEN StepResult(StageErr(k1), curr_vals, MadeCalls(cs, functions, k1))
  ELSE IF Len(functions) < n_vars THEN StepResult("IndexError", curr_vals, cs)
  ELSE LET t2 == RAdd(t_curr, Half(h))
           k2_vals == [i \in 1..n_vars |-> RAdd(curr_vals[i], Half(k1[i].val))]
       IN  SystemK2(functions, n_vars, h, t_curr, curr_vals, k1,
                    cs \o StageCalls(2, functions, t2, k2_vals),
                    StageK(functions, h, t2, k2_vals, 1))

SystemStep(functions, n_vars, h, t_curr, curr_vals) ==
  SystemK1(functions, n_vars, h, t_curr, curr_vals,
           StageCalls(1, functions, t_curr, curr_vals),
           StageK(functions, h, t_curr, curr_vals, 1))

(***************************************************************************)
(* State.  Lists are objects of a heap (a sequence; a reference is an      *)
(* index), so that a copy and an alias differ.  A generator is a frame:    *)
(* its arguments, its locals and where it is suspended.                    *)
(***************************************************************************)
VARIABLES
  args,       \* what the caller passes: model_key, parameters, ic, t0, h, n_steps
  built,      \* the result of create_model_functions, once called
  heap,       \* the list objects
  gen,        \* the generator frames
  out,        \* per generator, the samples the caller has pulled
  status,     \* per generator: "none", "open", "exhausted" or the exception raised
  calls,      \* per generator, the right-hand-side calls of its last pull
  ncalls,     \* per generator, the number of right-hand-side calls so far
  app         \* the fields and widgets of AnimatedPopulationGUI

vars == <<args, built, heap, gen, out, status, calls, ncalls, app>>

GenIds == {1, 2}

\* The caller's initial_conditions list.
IcRef == 1

NoFrame ==
  [pc |-> "none", kind |-> "", functions |-> <<>>, t0 |-> R(0), x0 |-> R(0),
   ic |-> 0, h |-> R(0), n_steps |-> 0, n_vars |-> 0, t_curr |-> R(0),
   x_curr |-> R(0), curr_vals |-> 0, i |-> 0]

\* Calling a generator function binds its arguments and runs nothing.
solve_single_ode_animated(f, t0, x0, h, n_steps) ==
  [NoFrame EXCEPT !.pc = "start", !.kind = "single", !.functions = <<f>>,
                  !.t0 = t0, !.x0 = x0, !.h = h, !.n_steps = n_steps]

solve_system_ode_animated(functions, t0, initial_conditions, h, n_steps) ==
  [NoFrame EXCEPT !.pc = "start", !.kind = "system", !.functions = functions,
                  !.t0 = t0, !.ic = initial_conditions, !.h = h,
                  !.n_steps = n_steps]

\* A sample as the caller receives it: (t, x) with x a float (single) or a
\* reference to a list (system).
Sample(t, x, ref) == [t |-> t, x |-> x, ref |-> ref]

Yield(fr, hp, smp, cs) ==
  [fr |-> fr, hp |-> hp, kind |-> "yield", smp |-> smp, err |-> "", calls |-> cs]

Stop(fr, hp) ==
  [fr |-> [fr EXCEPT !.pc = "done"], hp |-> hp, kind |-> "stop",
   smp |-> Sample(R(0), R(0), 0), err |-> "StopIteration", calls |-> <<>>]

Raise(fr, hp, err, cs) ==
  [fr |-> [fr EXCEPT !.pc = "done"], hp |-> hp, kind |-> "raise",
   smp |-> Sample(R(0), R(0), 0), err |-> err, calls |-> cs]

\* next() on solve_single_ode_animated: lines 161-175.
SingleAdvance(fr, hp, st) ==
  IF st.err # "" THEN Raise(fr, hp, st.err, st.calls)
  ELSE Yield([fr EXCEPT !.x_curr = st.vals[1], !.t_curr = RAdd(fr.t_curr, fr.h),
                        !.i = fr.i + 1],
             hp, Sample(RAdd(fr.t_curr, fr.h), st.vals[1], 0), st.calls)

\* A variant of NextSingle whose loop runs once more than range(n_steps).
NextSingleInclusive(fr, hp) ==
  IF fr.pc = "start"
  THEN Yield([fr EXCEPT !.pc = "loop", !.t_curr = fr.t0, !.x_curr = fr.x0,
                        !.i = 0],
             hp, Sample(fr.t0, fr.x0, 0), <<>>)
  ELSE IF fr.pc = "loop" /\ fr.i <= fr.n_steps
  THEN SingleAdvance(fr, hp,
         SingleStep(fr.functions[1], fr.h, fr.t_curr, fr.x_curr))
  ELSE Stop(fr, hp)

NextSingle(fr, hp) ==
  IF fr.pc = "start"
  THEN Yield([fr EXCEPT !.pc = "loop", !.t_curr = fr.t0, !.x_curr = fr.x0,
                        !.i = 0],
             hp, Sample(fr.t0, fr.x0, 0), <<>>)
  ELSE IF fr.pc = "loop" /\ fr.i < fr.n_steps
  THEN SingleAdvance(fr, hp,
         SingleStep(fr.functions[1], fr.h, fr.t_curr, fr.x_curr))
  ELSE Stop(fr, hp)

\* A variant of SystemAdvance that yields curr_vals itself, not a copy.
SystemAdvanceNoCopy(fr, hp, st) ==
  IF st.err # "" THEN Raise(fr, hp, st.err, st.calls)
  ELSE Yield([fr EXCEPT !.t_curr = RAdd(fr.t_curr, fr.h), !.i = fr.i + 1],
             [hp EXCEPT ![fr.curr_vals] = st.vals],
             Sample(RAdd(fr.t_curr, fr.h), R(0), fr.curr_vals), st.calls)

\* next() on solve_system_ode_animated: lines 179-202.  The loop at lines
\* 197-198 writes the new values into the list curr_vals; list.copy()
\* allocates a new list.
SystemAdvance(fr, hp, st) ==
  IF st.err # "" THEN Raise(fr, hp, st.err, st.calls)
  ELSE Yield([fr EXCEPT !.t_curr = RAdd(fr.t_curr, fr.h), !.i = fr.i + 1],
             [hp EXCEPT ![fr.curr_vals] = st.vals] \o <<st.vals>>,
             Sample(RAdd(fr.t_curr, fr.h), R(0), Len(hp) + 1), st.calls)

\* A variant of NextSystem whose loop runs once more than range(n_steps).
NextSystemInclusive(fr, hp) ==
  IF fr.pc = "start"
  THEN Yield([fr EXCEPT !.pc = "loop", !.n_vars = Len(hp[fr.ic]),
                        !.t_curr = fr.t0, !.curr_vals = Len(hp) + 1, !.i = 0],
             hp \o <<hp[fr.ic], hp[fr.ic]>>,
             Sample(fr.t0, R(0), Len(hp) + 2), <<>>)
  ELSE IF fr.pc = "loop" /\ fr.i <= fr.n_steps
  THEN SystemAdvance(fr, hp,
         SystemStep(fr.functions, fr.n_vars, fr.h, fr.t_curr, hp[fr.curr_vals]))
  ELSE Stop(fr, hp)

\* A variant of NextSystem that works on the caller's list, not on a copy.
NextSystemAliased(fr, hp) ==
  IF fr.pc = "start"
  THEN Yield([fr EXCEPT !.pc = "loop", !.n_vars = Len(hp[fr.ic]),
                        !.t_curr = fr.t0, !.curr_vals = fr.ic, !.i = 0],
             hp \o <<hp[fr.ic]>>,
             Sample(fr.t0, R(0), Len(hp) + 1), <<>>)
  ELSE IF fr.pc = "loop" /\ fr.i < fr.n_steps
  THEN SystemAdvance(fr, hp,
         SystemStep(fr.functions, fr.n_vars, fr.h, fr.t_curr, hp[fr.curr_vals]))
  ELSE Stop(fr, hp)

\* A variant of NextSystem whose first yield is curr_vals itself, not a copy.
NextSystemNoCopy(fr, hp) ==
  IF fr.pc = "start"
  THEN Yield([fr EXCEPT !.pc = "loop", !.n_vars = Len(hp[fr.ic]),
                        !.t_curr = fr.t0, !.curr_vals = Len(hp) + 1, !.i = 0],
             hp \o <<hp[fr.ic]>>,
             Sample(fr.t0, R(0), Len(hp) + 1), <<>>)
  ELSE IF fr.pc = "loop" /\ fr.i < fr.n_steps
  THEN SystemAdvance(fr, hp,
         SystemStep(fr.functions, fr.n_vars, fr.h, fr.t_curr, hp[fr.curr_vals]))
  ELSE Stop(fr, hp)

NextSystem(fr, hp) ==
  IF fr.pc = "start"
  THEN Yield([fr EXCEPT !.pc = "loop", !.n_vars = Len(hp[fr.ic]),
                        !.t_curr = fr.t0, !.curr_vals = Len(hp) + 1, !.i = 0],
             hp \o <<hp[fr.ic], hp[fr.ic]>>,
             Sample(fr.t0, R(0), Len(hp) + 2), <<>>)
  ELSE IF fr.pc = "loop" /\ fr.i < fr.n_steps
  THEN SystemAdvance(fr, hp,
         SystemStep(fr.functions, fr.n_vars, fr.h, fr.t_curr, hp[fr.curr_vals]))
  ELSE Stop(fr, hp)

GenNext(fr, hp) ==
  IF fr.kind = "single" THEN NextSingle(fr, hp) ELSE NextSystem(fr, hp)

(***************************************************************************)
(* The inputs explored.  The registry is an open dict and the claims speak *)
(* of any model definition, so the catalogue the builder is run on holds   *)
(* the packaged models and further definitions of the same shape.          *)
(* The values are chosen so that every number of a run stays a small       *)
(* rational.                                                               *)
(***************************************************************************)
MaxSteps == 3

\* The step bound of the runs whose numbers grow fastest (coupled nonlinear).
ShortSteps == 1

\* "r*x + t"
Linear ==
  [equations |-> << <<"r", "*", "x", " ", "+", " ", "t">> >>,
   parameters |-> <<<<"r">>>>,
   param_defaults |-> <<<<"float", <<1, 1>>>>>>,
   initial_conditions |-> <<<<"x", "0">>>>,
   ic_defaults |-> <<<<"int", <<1, 1>>>>>>,
   variables |-> <<<<"x">>>>,
   n_var_names |-> 1,
   type |-> "single"]

\* "w*y + t", "-w*x"
Oscillator ==
  [equations |-> << <<"w", "*", "y", " ", "+", " ", "t">>,
                    <<"-", "w", "*", "x">> >>,
   parameters |-> <<<<"w">>>>,
   param_defaults |-> <<<<"float", <<1, 1>>>>>>,
   initial_conditions |-> <<<<"x", "0">>, <<"y", "0">>>>,
   ic_defaults |-> <<<<"int", <<1, 1>>>>, <<"int", <<2, 1>>>>>>,
   variables |-> <<<<"x">>, <<"y">>>>,
   n_var_names |-> 2,
   type |-> "system"]

\* "r1 + r*t": the name of one parameter is a prefix of another's.
Prefix ==
  [equations |-> << <<"r", "1", " ", "+", " ", "r", "*", "t">> >>,
   parameters |-> <<<<"r">>, <<"r", "1">>>>,
   param_defaults |-> <<<<"float", <<2, 1>>>>, <<"float", <<3, 1>>>>>>,
   initial_conditions |-> <<<<"x", "0">>>>,
   ic_defaults |-> <<<<"int", <<1, 1>>>>>>,
   variables |-> <<<<"x">>>>,
   n_var_names |-> 1,
   type |-> "single"]

\* "r*x + q": q is neither t, a variable nor a parameter.
Undeclared ==
  [equations |-> << <<"r", "*", "x", " ", "+", " ", "q">> >>,
   parameters |-> <<<<"r">>>>,
   param_defaults |-> <<<<"float", <<1, 1>>>>>>,
   initial_conditions |-> <<<<"x", "0">>>>,
   ic_defaults |-> <<<<"int", <<1, 1>>>>>>,
   variables |-> <<<<"x">>>>,
   n_var_names |-> 1,
   type |-> "single"]

\* "w", "y/x": the second right-hand side fails where x = 0.
Pole ==
  [equations |-> << <<"w">>, <<"y", "/", "x">> >>,
   parameters |-> <<<<"w">>>>,
   param_defaults |-> <<<<"float", <<1, 1>>>>>>,
   initial_conditions |-> <<<<"x", "0">>, <<"y", "0">>>>,
   ic_defaults |-> <<<<"int", <<-3, 1>>>>, <<"int", <<1, 1>>>>>>,
   variables |-> <<<<"x">>, <<"y">>>>,
   n_var_names |-> 2,
   type |-> "system"]

\* "w*x", "-w*y" with the variables declared in the order y, x.
Swapped ==
  [equations |-> << <<"w", "*", "x">>, <<"-", "w", "*", "y">> >>,
   parameters |-> <<<<"w">>>>,
   param_defaults |-> <<<<"float", <<1, 1>>>>>>,
   initial_conditions |-> <<<<"y", "0">>, <<"x", "0">>>>,
   ic_defaults |-> <<<<"int", <<1, 1>>>>, <<"int", <<2, 1>>>>>>,
   variables |-> <<<<"y">>, <<"x">>>>,
   n_var_names |-> 2,
   type |-> "system"]

Catalogue ==
  Registry @@ ("linear" :> Linear) @@ ("oscillator" :> Oscillator)
           @@ ("prefix" :> Prefix) @@ ("undeclared" :> Undeclared)
           @@ ("pole" :> Pole) @@ ("swapped" :> Swapped)

P(name, n) == <<name, R(n)>>

Ones(names) == [i \in 1..Len(names) |-> P(names[i], 1)]

Scenario(model_key, parameters, ic, t0, h, long) ==
  [model_key |-> model_key, parameters |-> parameters, ic |-> ic, t0 |-> t0,
   h |-> h, long |-> long]

Scenarios ==
  { Scenario("logistic", Ones(Logistic.parameters), <<R(2)>>, R(0), R(1), TRUE),
    Scenario("logistic", <<P(<<"r">>, 1)>>, <<R(2)>>, R(0), R(1), TRUE),
    Scenario("logistic", <<P(<<"r">>, 1), P(<<"K">>, 0)>>, <<R(2)>>, R(0), R(1),
             TRUE),
    Scenario("lotka_volterra", Ones(LotkaVolterra.parameters), <<R(1), R(2)>>,
             R(0), R(2), FALSE),
    Scenario("sir", <<P(<<"b", "e", "t", "a">>, 2),
                      P(<<"g", "a", "m", "m", "a">>, 1), P(<<"N">>, 2)>>,
             <<R(1), R(1), R(0)>>, R(0), R(2), FALSE),
    Scenario("sir", <<P(<<"b", "e", "t", "a">>, 1),
                      P(<<"g", "a", "m", "m", "a">>, 1), P(<<"N">>, 2)>>,
             <<R(0), R(2), R(0)>>, R(0), R(2), TRUE),
    Scenario("linear", Ones(Linear.parameters), <<R(1)>>, R(1), R(2), TRUE),
    Scenario("linear", Ones(Linear.parameters), <<R(1)>>, R(0), R(-1), TRUE),
    Scenario("oscillator", Ones(Oscillator.parameters), <<R(1), R(2)>>, R(1),
             R(2), TRUE),
    Scenario("oscillator", Ones(Oscillator.parameters), <<R(1), R(0)>>, R(0),
             R(1), TRUE),
    Scenario("prefix", <<P(<<"r">>, 2), P(<<"r", "1">>, 3)>>, <<R(1)>>, R(0),
             R(1), TRUE),
    Scenario("logistic", Ones(Logistic.parameters), <<R(2)>>, R(0), R(0), TRUE),
    Scenario("undeclared", Ones(Undeclared.parameters), <<R(1)>>, R(0), R(1),
             TRUE),
    Scenario("pole", Ones(Pole.parameters), <<R(-3), R(1)>>, R(0), R(2), TRUE),
    Scenario("swapped", Ones(Swapped.parameters), <<R(1), R(2)>>, R(0), R(1),
             TRUE),
    Scenario("lotka_volterra",
             <<P(<<"a">>, 2), P(<<"b">>, -1), P(<<"c">>, 3), P(<<"d">>, -2)>>,
             <<R(0), R(0)>>, R(0), R(1), FALSE),
    Scenario("competition",
             <<P(<<"r", "1">>, 2), P(<<"r", "2">>, 3), P(<<"K", "1">>, 4),
               P(<<"K", "2">>, 5), P(<<"a", "l", "p", "h", "a">>, -1),
               <<<<"b", "e", "t", "a">>, <<1, 2>>>> >>,
             <<R(0), R(0)>>, R(0), R(1), FALSE),
    Scenario("metapopulation",
             <<P(<<"r", "1">>, 2), P(<<"r", "2">>, 3), P(<<"K", "1">>, 4),
               P(<<"K", "2">>, 5), <<<<"m">>, <<1, 4>>>> >>,
             <<R(0), R(0)>>, R(0), R(1), FALSE),
    Scenario("sir", <<P(<<"b", "e", "t", "a">>, -1),
                      P(<<"g", "a", "m", "m", "a">>, 3), P(<<"N">>, 2)>>,
             <<R(0), R(0), R(0)>>, R(0), R(1), FALSE),
    Scenario("unknown", <<>>, <<R(1)>>, R(0), R(1), TRUE) }

InitArgs ==
  UNION { { [model_key |-> sc.model_key, parameters |-> sc.parameters,
             ic |-> sc.ic, t0 |-> sc.t0, h |-> sc.h, n_steps |-> n] :
              n \in (-1)..(IF sc.long THEN MaxSteps ELSE ShortSteps) } :
          sc \in Scenarios }

(***************************************************************************)
(* AnimatedPopulationGUI.  app holds the fields of the object, the state   *)
(* of the three buttons, the status label (by kind: "ready", "step",       *)
(* "paused", "finished", "error"), the progress variable, the numbers in   *)
(* the entries, and timers, the number of root.after callbacks of          *)
(* animation_loop that have not fired yet.  solver_generator is gen[1].    *)
(* last names the handler that ran last.                                   *)
(***************************************************************************)
SolverGenerator == 1

DefaultParams(model_info) ==
  [i \in 1..Len(model_info.parameters) |->
     <<model_info.parameters[i], model_info.param_defaults[i][2]>>]

DefaultIcs(model_info) ==
  [i \in 1..Len(model_info.ic_defaults) |-> model_info.ic_defaults[i][2]]

\* __init__ and setup_gui: lines 345-372, 424-436, 447-457, 480-487.
InitialApp ==
  [current_model |-> "logistic", is_playing |-> FALSE, current_step |-> 0,
   max_steps |-> 1000, time_data |-> <<>>, population_data |-> <<>>,
   phase_data |-> <<>>, play_button |-> "normal", pause_button |-> "normal",
   stop_button |-> "normal", status_label |-> "ready", progress |-> R(0),
   param_entries |-> DefaultParams(Logistic),
   ic_entries |-> DefaultIcs(Logistic),
   time_entry |-> R(30), step_entry |-> <<1, 20>>, timers |-> 0,
   last |-> "init"]

(***************************************************************************)
(* A caller of the core: it builds the functions of a model, creates up to *)
(* two sequences from them and from one initial-condition list, and pulls  *)
(* them one sample at a time, in any interleaving.                         *)
(***************************************************************************)
NotBuilt == [done |-> FALSE, err |-> "", fns |-> <<>>]

InitSolver ==
  /\ args \in InitArgs
  /\ built = NotBuilt
  /\ heap = <<args.ic>>
  /\ gen = [g \in GenIds |-> NoFrame]
  /\ out = [g \in GenIds |-> <<>>]
  /\ status = [g \in GenIds |-> "none"]
  /\ calls = [g \in GenIds |-> <<>>]
  /\ ncalls = [g \in GenIds |-> 0]
  /\ app = InitialApp

Build ==
  /\ ~built.done
  /\ LET r == create_model_functions(Catalogue, args.model_key, args.parameters)
     IN  built' = [done |-> TRUE, err |-> r.err, fns |-> r.fns]
  /\ UNCHANGED <<args, heap, gen, out, status, calls, ncalls, app>>

\* lines 951-956: the solver is chosen by the model's type.
NewSequence(g) ==
  /\ built.done /\ built.err = ""
  /\ gen[g].pc = "none"
  /\ gen' = [gen EXCEPT ![g] =
       IF Catalogue[args.model_key].type = "single"
       THEN solve_single_ode_animated(built.fns[1], args.t0, heap[IcRef][1],
                                      args.h, args.n_steps)
       ELSE solve_system_ode_animated(built.fns, args.t0, IcRef, args.h,
                                      args.n_steps)]
  /\ status' = [status EXCEPT ![g] = "open"]
  /\ UNCHANGED <<args, built, heap, out, calls, ncalls, app>>

\* A variant of Pulled whose caller records a sample for a pull that raised.
PulledAppending(g, r) ==
  /\ gen' = [gen EXCEPT ![g] = r.fr]
  /\ heap' = r.hp
  /\ out' = [out EXCEPT ![g] = IF r.kind # "stop" THEN Append(@, r.smp) ELSE @]
  /\ status' = [status EXCEPT ![g] =
       IF r.kind = "yield" THEN "open"
       ELSE IF r.kind = "stop" THEN "exhausted" ELSE r.err]
  /\ calls' = [calls EXCEPT ![g] = r.calls]
  /\ ncalls' = [ncalls EXCEPT ![g] = @ + Len(r.calls)]

\* next(gen[g]); the caller stops pulling at StopIteration or an exception.
Pulled(g, r) ==
  /\ gen' = [gen EXCEPT ![g] = r.fr]
  /\ heap' = r.hp
  /\ out' = [out EXCEPT ![g] = IF r.kind = "yield" THEN Append(@, r.smp) ELSE @]
  /\ status' = [status EXCEPT ![g] =
       IF r.kind = "yield" THEN "open"
       ELSE IF r.kind = "stop" THEN "exhausted" ELSE r.err]
  /\ calls' = [calls EXCEPT ![g] = r.calls]
  /\ ncalls' = [ncalls EXCEPT ![g] = @ + Len(r.calls)]

Pull(g) ==
  /\ status[g] = "open"
  /\ Pulled(g, GenNext(gen[g], heap))
  /\ UNCHANGED <<args, built, app>>

NextSolver == Build \/ \E g \in GenIds : NewSequence(g) \/ Pull(g)

SpecSolver == InitSolver /\ [][NextSolver]_vars

(***************************************************************************)
(* The handlers of AnimatedPopulationGUI.  A handler maps the whole state  *)
(* (a record w of the variables) to the state it leaves.                   *)
(***************************************************************************)
World ==
  [app |-> app, args |-> args, built |-> built, heap |-> heap, gen |-> gen,
   out |-> out, status |-> status, calls |-> calls, ncalls |-> ncalls]

Commit(w) ==
  /\ app' = w.app /\ args' = w.args /\ built' = w.built /\ heap' = w.heap
  /\ gen' = w.gen /\ out' = w.out /\ status' = w.status /\ calls' = w.calls
  /\ ncalls' = w.ncalls

\* lines 1121-1130
stop_animation(a) ==
  [a EXCEPT !.is_playing = FALSE, !.current_step = 0, !.progress = R(0),
            !.play_button = "normal", !.pause_button = "disabled",
            !.stop_button = "disabled", !.status_label = "ready"]

\* lines 1115-1119
pause_animation(a) ==
  [a EXCEPT !.is_playing = FALSE, !.play_button = "normal",
            !.pause_button = "disabled", !.status_label = "paused"]

\* lines 579-615: the entries are created anew and hold the defaults.
update_model_interface(a) ==
  [a EXCEPT !.param_entries = DefaultParams(Registry[a.current_model]),
            !.ic_entries = DefaultIcs(Registry[a.current_model])]

\* lines 574-577; the combobox is read-only and lists the registry's keys.
on_model_change(a, key) ==
  stop_animation(update_model_interface([a EXCEPT !.current_model = key]))

\* load_parameters, lines 1174-1208.  data is the content of the chosen file:
\* the model it names and the numbers it holds for that model's entries.
\* For a model that is not registered, on_model_change has assigned
\* current_model when update_model_interface raises KeyError (line 580),
\* which the except clause of load_parameters reports; nothing else runs.
FillEntries(a, data) ==
  [a EXCEPT !.param_entries = data.entries.param_entries,
            !.ic_entries = data.entries.ic_entries,
            !.time_entry = data.entries.time_entry,
            !.step_entry = data.entries.step_entry]

load_parameters(a, data) ==
  IF data.model = a.current_model THEN FillEntries(a, data)
  ELSE IF data.model \notin DOMAIN Registry
  THEN [a EXCEPT !.current_model = data.model]
  ELSE FillEntries(on_model_change(a, data.model), data)

\* lines 933-970.  The try block raises KeyError for a model that is not in
\* the registry and ZeroDivisionError for a zero step, both before anything
\* is assigned; the except clause reports it and returns False.
PrepareFails(a) ==
  a.current_model \notin DOMAIN Registry \/ a.step_entry[1] = 0

\* A variant of Prepared that leaves the collected data as they are.
PreparedKeepingData(w, max_steps, functions) ==
  [w EXCEPT
     !.app = [@ EXCEPT !.max_steps = max_steps, !.current_step = 0],
     !.args = [model_key |-> w.app.current_model,
               parameters |-> w.app.param_entries, ic |-> w.app.ic_entries,
               t0 |-> R(0), h |-> w.app.step_entry, n_steps |-> max_steps],
     !.built = [done |-> TRUE, err |-> "", fns |-> functions],
     !.heap = <<w.app.ic_entries>>,
     !.gen[SolverGenerator] =
        IF Registry[w.app.current_model].type = "single"
        THEN solve_single_ode_animated(functions[1], R(0),
                                       w.app.ic_entries[1], w.app.step_entry,
                                       max_steps)
        ELSE solve_system_ode_animated(functions, R(0), IcRef,
                                       w.app.step_entry, max_steps),
     !.out[SolverGenerator] = <<>>,
     !.status[SolverGenerator] = "open",
     !.calls[SolverGenerator] = <<>>,
     !.ncalls[SolverGenerator] = 0]

Prepared(w, max_steps, functions) ==
  [w EXCEPT
     !.app = [@ EXCEPT !.max_steps = max_steps, !.time_data = <<>>,
                       !.population_data = <<>>, !.phase_data = <<>>,
                       !.current_step = 0],
     !.args = [model_key |-> w.app.current_model,
               parameters |-> w.app.param_entries, ic |-> w.app.ic_entries,
               t0 |-> R(0), h |-> w.app.step_entry, n_steps |-> max_steps],
     !.built = [done |-> TRUE, err |-> "", fns |-> functions],
     !.heap = <<w.app.ic_entries>>,
     !.gen[SolverGenerator] =
        IF Registry[w.app.current_model].type = "single"
        THEN solve_single_ode_animated(functions[1], R(0),
                                       w.app.ic_entries[1], w.app.step_entry,
                                       max_steps)
        ELSE solve_system_ode_animated(functions, R(0), IcRef,
                                       w.app.step_entry, max_steps),
     !.out[SolverGenerator] = <<>>,
     !.status[SolverGenerator] = "open",
     !.calls[SolverGenerator] = <<>>,
     !.ncalls[SolverGenerator] = 0]

prepare_animation_data(w) ==
  IF PrepareFails(w.app) THEN [ok |-> FALSE, w |-> w]
  ELSE [ok |-> TRUE,
        w |-> Prepared(w, RTrunc(RDiv(w.app.time_entry, w.app.step_entry)),
                create_model_functions(Registry, w.app.current_model,
                                       w.app.param_entries).fns)]

\* animate_step, lines 1011-1052.  r is what next(self.solver_generator)
\* does; values is a list (system) or a float (single).
Values(r) == IF r.smp.ref = 0 THEN <<r.smp.x>> ELSE r.hp[r.smp.ref]

WorldPulled(w, r) ==
  [w EXCEPT
     !.gen[SolverGenerator] = r.fr,
     !.heap = r.hp,
     !.out[SolverGenerator] = IF r.kind = "yield" THEN Append(@, r.smp) ELSE @,
     !.status[SolverGenerator] =
        IF r.kind = "yield" THEN "open"
        ELSE IF r.kind = "stop" THEN "exhausted" ELSE r.err,
     !.calls[SolverGenerator] = r.calls,
     !.ncalls[SolverGenerator] = @ + Len(r.calls)]

\* lines 1015-1032
AppendData(a, r) ==
  [a EXCEPT
     !.time_data = Append(@, r.smp.t),
     !.population_data =
        [i \in 1..Len(Values(r)) |->
           Append(IF @ = <<>> THEN <<>> ELSE @[i], Values(r)[i])],
     !.phase_data =
        IF r.smp.ref # 0 /\ Len(Values(r)) = 2 THEN Append(@, Values(r))
        ELSE @,
     !.current_step = @ + 1]

\* lines 1033-1043: the division raises ZeroDivisionError for max_steps = 0,
\* which the last except clause catches.
AfterStep(a) ==
  IF a.max_steps = 0
  THEN [success |-> FALSE,
        app |-> [stop_animation(a) EXCEPT !.status_label = "error"]]
  ELSE IF a.current_step >= a.max_steps
  THEN [success |-> FALSE,
        app |-> [stop_animation(a) EXCEPT !.status_label = "finished"]]
  ELSE [success |-> TRUE,
        app |-> [a EXCEPT !.progress = RMul(RDiv(R(a.current_step),
                                                 R(a.max_steps)), R(100)),
                          !.status_label = "step"]]

\* lines 1045-1052
AfterRaise(a, r) ==
  [success |-> FALSE,
   app |-> [stop_animation(a) EXCEPT
              !.status_label = IF r.kind = "stop" THEN "finished" ELSE "error"]]

WithApp(w, s) == [success |-> s.success, w |-> [w EXCEPT !.app = s.app]]

StepOutcome(w, r) ==
  IF r.kind = "yield"
  THEN WithApp(WorldPulled(w, r), AfterStep(AppendData(w.app, r)))
  ELSE WithApp(WorldPulled(w, r), AfterRaise(w.app, r))

animate_step(w) ==
  StepOutcome(w, GenNext(w.gen[SolverGenerator], w.heap))

\* lines 1095-1100
\* A variant of Scheduled that registers no callback.
ScheduledNever(s) == s.w

Scheduled(s) ==
  IF s.success THEN [s.w EXCEPT !.app.timers = @ + 1] ELSE s.w

animation_loop(w) ==
  IF w.app.is_playing THEN Scheduled(animate_step(w)) ELSE w

\* lines 1102-1113
Play(w) ==
  animation_loop([w EXCEPT !.app.is_playing = TRUE,
                           !.app.play_button = "disabled",
                           !.app.pause_button = "normal",
                           !.app.stop_button = "normal"])

StartPrepared(p) == IF p.ok THEN Play(p.w) ELSE p.w

\* A variant of start_animation that prepares a new run at every start.
start_animation_anew(w) ==
  IF w.app.is_playing THEN w
  ELSE StartPrepared(prepare_animation_data(w))

start_animation(w) ==
  IF w.app.is_playing THEN w
  ELSE IF w.app.current_step = 0 THEN StartPrepared(prepare_animation_data(w))
  ELSE Play(w)

(***************************************************************************)
(* The application: the user selects a model, types numbers into the       *)
(* entries, loads a parameter file, and presses Start, Pause and Stop; the *)
(* timer callbacks fire in between.  The numbers typed are those of the    *)
(* scenarios above, for the packaged models, with a simulation time of a   *)
(* whole or half number of steps; Start is explored when the entries hold  *)
(* such numbers.                                                           *)
(***************************************************************************)
MaxTimers == 2

AppScenarios ==
  {sc \in Scenarios :
     /\ sc.model_key \in DOMAIN Registry /\ sc.t0 = R(0)
     /\ Len(sc.parameters) = Len(Registry[sc.model_key].parameters)}

Entries(sc, k) ==
  [param_entries |-> sc.parameters, ic_entries |-> sc.ic, step_entry |-> sc.h,
   time_entry |-> RMul(Norm(k, 2), sc.h)]

TypedEntries(model_key) ==
  UNION { { Entries(sc, k) :
              k \in 0..(2 * (IF sc.long THEN MaxSteps ELSE ShortSteps) + 1) } :
          sc \in {c \in AppScenarios : c.model_key = model_key} }

EntriesOf(a) ==
  [param_entries |-> a.param_entries, ic_entries |-> a.ic_entries,
   step_entry |-> a.step_entry, time_entry |-> a.time_entry]

NoArgs ==
  [model_key |-> "", parameters |-> <<>>, ic |-> <<>>, t0 |-> R(0),
   h |-> R(0), n_steps |-> 0]

InitApp ==
  /\ app = InitialApp
  /\ args = NoArgs
  /\ built = NotBuilt
  /\ heap = <<>>
  /\ gen = [g \in GenIds |-> NoFrame]
  /\ out = [g \in GenIds |-> <<>>]
  /\ status = [g \in GenIds |-> "none"]
  /\ calls = [g \in GenIds |-> <<>>]
  /\ ncalls = [g \in GenIds |-> 0]

Did(w, handler) == \E v \in {[w EXCEPT !.app.last = handler]} : Commit(v)

\* The user types numbers into the entries (while nothing is playing).
TypeEntries(e) ==
  /\ ~app.is_playing
  /\ EntriesOf(app) # e
  /\ Did([World EXCEPT !.app.param_entries = e.param_entries,
                       !.app.ic_entries = e.ic_entries,
                       !.app.step_entry = e.step_entry,
                       !.app.time_entry = e.time_entry], "type")

SelectModel(key) == Did([World EXCEPT !.app = on_model_change(@, key)], "model")

\* The files the user loads: one saved for a packaged model, with the
\* numbers of a scenario and a simulation time of two steps, or one that
\* names a model the registry does not have.
LoadFiles ==
  { [model |-> sc.model_key, entries |-> Entries(sc, 4)] : sc \in AppScenarios }
    \cup { [model |-> "unknown",
            entries |-> [param_entries |-> <<>>, ic_entries |-> <<>>,
                         step_entry |-> R(1), time_entry |-> R(1)]] }

LoadParameters(data) ==
  Did([World EXCEPT !.app = load_parameters(@, data)], "load")

PressStart ==
  /\ app.play_button = "normal"
  /\ app.timers < MaxTimers
  /\ (app.current_step = 0 /\ app.current_model \in DOMAIN Registry) =>
       EntriesOf(app) \in TypedEntries(app.current_model)
  /\ Did(start_animation(World), "start")

PressPause ==
  /\ app.pause_button = "normal"
  /\ Did([World EXCEPT !.app = pause_animation(@)], "pause")

PressStop ==
  /\ app.stop_button = "normal"
  /\ Did([World EXCEPT !.app = stop_animation(@)], "stop")

\* A pending callback of animation_loop fires.
TimerFires ==
  /\ app.timers > 0
  /\ Did(animation_loop([World EXCEPT !.app.timers = @ - 1]), "tick")

NextApp ==
  \/ PressStart
  \/ PressPause
  \/ PressStop
  \/ TimerFires
  \/ \E key \in DOMAIN Registry : SelectModel(key)
  \/ \E e \in TypedEntries(app.current_model) : TypeEntries(e)
  \/ \E data \in LoadFiles : LoadParameters(data)

SpecApp == InitApp /\ [][NextApp]_vars

\* A step in which a pending callback has fired: of the steps of NextApp,
\* exactly those of TimerFires leave last = "tick".  The first disjunct is the
\* callback's own bookkeeping, one such step that exists whenever a callback
\* is pending, so that the action is enabled exactly when TimerFires is.
CallbackFired ==
  /\ app.timers > 0
  /\ \/ /\ app' = [app EXCEPT !.timers = @ - 1, !.last = "tick"]
        /\ UNCHANGED <<args, built, heap, gen, out, status, calls, ncalls>>
     \/ app'.last = "tick"

\* The event loop of Tk runs every callback registered with root.after once
\* its delay has passed.
SpecAppFair == SpecApp /\ WF_vars(CallbackFired)

(***************************************************************************)
(* What the claims are stated in: the value of a pulled sample and the     *)
(* classical Runge-Kutta update, written from its textbook definition on   *)
(* whole vectors.                                                          *)
(***************************************************************************)
\* The state vector of the i-th sample pulled from g, as it is now.
SV(g, i) ==
  IF gen[g].kind = "system" THEN heap[out[g][i].ref] ELSE <<out[g][i].x>>

\* The initial state the caller asked for.
X0(g) == IF gen[g].kind = "system" THEN args.ic ELSE <<args.ic[1]>>

\* Vectors are built as tuples, and the argument of the right-hand sides is
\* computed before they are entered.
VAdd(a, b) == [i \in 1..Len(a) |-> RAdd(a[i], b[i])] \o <<>>

VScale(c, a) == [i \in 1..Len(a) |-> RMul(c, a[i])] \o <<>>

VecF(fs, t, x) ==
  IF Len(x) = 0 THEN <<>>
  ELSE [j \in 1..Len(fs) |-> Call(fs[j], t, x).val] \o <<>>

KVec(fs, h, t, x) == VScale(h, VecF(fs, t, x))

\* The four stage vectors k1, k2, k3, k4 of the classical method, each
\* computed from the one before it.
RK4S4(k1, k2, k3, k4) == IF k4 = <<>> THEN <<>> ELSE <<k1, k2, k3, k4>>

RK4S3(fs, h, t, x, k1, k2, k3) ==
  IF k3 = <<>> THEN <<>>
  ELSE RK4S4(k1, k2, k3, KVec(fs, h, RAdd(t, h), VAdd(x, k3)))

RK4S2(fs, h, t, x, k1, k2) ==
  IF k2 = <<>> THEN <<>>
  ELSE RK4S3(fs, h, t, x, k1, k2,
             KVec(fs, h, RAdd(t, RMul(<<1, 2>>, h)),
                  VAdd(x, VScale(<<1, 2>>, k2))))

RK4S1(fs, h, t, x, k1) ==
  IF k1 = <<>> THEN <<>>
  ELSE RK4S2(fs, h, t, x, k1,
             KVec(fs, h, RAdd(t, RMul(<<1, 2>>, h)),
                  VAdd(x, VScale(<<1, 2>>, k1))))

RK4Stages(fs, h, t, x) == RK4S1(fs, h, t, x, KVec(fs, h, t, x))

\* x + (k1 + 2 k2 + 2 k3 + k4) / 6
RK4Combine(x, k) ==
  VAdd(x, VScale(<<1, 6>>,
    VAdd(VAdd(k[1], VScale(R(2), k[2])), VAdd(VScale(R(2), k[3]), k[4]))))

ClassicRK4(fs, h, t, x) == RK4Combine(x, RK4Stages(fs, h, t, x))

\* C1: a sequence requested with n_steps >= 0 and pulled until StopIteration
\* has yielded exactly n_steps + 1 samples, and the first sample of every
\* sequence is (t0, x0).
C1_SampleCount ==
  \A g \in GenIds :
    /\ (status[g] = "exhausted" /\ args.n_steps >= 0)
          => Len(out[g]) = args.n_steps + 1
    /\ Len(out[g]) >= 1 => (out[g][1].t = args.t0 /\ SV(g, 1) = X0(g))

C1_Witness ==
  \E g \in GenIds :
    /\ status[g] = "exhausted" /\ gen[g].kind = "system"
    /\ args.n_steps >= 2 /\ Len(out[g]) = args.n_steps + 1

\* C2: every sample after the first is the classical RK4 update of the
\* sample before it, and its time is the previous time plus h.
C2_ClassicalUpdate ==
  \A g \in GenIds : \A i \in 2..Len(out[g]) :
    /\ out[g][i].t = RAdd(out[g][i - 1].t, args.h)
    /\ SV(g, i) = ClassicRK4(gen[g].functions, args.h, out[g][i - 1].t,
                             SV(g, i - 1))

C2_Witness ==
  \E g \in GenIds :
    /\ gen[g].kind = "system" /\ Len(out[g]) >= 3
    /\ SV(g, 3)[1] # SV(g, 2)[1] /\ SV(g, 3)[2] # SV(g, 2)[2]
    /\ SV(g, 2)[1] # SV(g, 1)[1]

\* C3: in the system solver, the calls of one step are, stage by stage, every
\* function at one and the same vector: the previous sample for stage 1, the
\* previous sample plus half the whole k1 vector for stage 2, plus half the
\* whole k2 vector for stage 3, plus the whole k3 vector for stage 4; so the
\* current state is not overwritten before the last call.
StageVector(x, k, st) ==
  CASE st = 1 -> x
    [] st = 2 -> VAdd(x, VScale(<<1, 2>>, k[1]))
    [] st = 3 -> VAdd(x, VScale(<<1, 2>>, k[2]))
    [] st = 4 -> VAdd(x, k[3])

StageTime(h, t, st) ==
  CASE st = 1 -> t
    [] st \in {2, 3} -> RAdd(t, RMul(<<1, 2>>, h))
    [] st = 4 -> RAdd(t, h)

StepCalls(n, h, t, x, k) ==
  [c \in 1..(4 * n) |->
     [st |-> ((c - 1) \div n) + 1, fn |-> ((c - 1) % n) + 1,
      t |-> StageTime(h, t, ((c - 1) \div n) + 1),
      args |-> StageVector(x, k, ((c - 1) \div n) + 1)]] \o <<>>

LastStepCalls(g, last) ==
  StepCalls(Len(gen[g].functions), args.h, out[g][last - 1].t,
            SV(g, last - 1),
            RK4Stages(gen[g].functions, args.h, out[g][last - 1].t,
                      SV(g, last - 1)))

C3_SameIntermediateState ==
  \A g \in GenIds :
    (gen[g].kind = "system" /\ status[g] = "open" /\ Len(out[g]) >= 2) =>
      calls[g] = LastStepCalls(g, Len(out[g]))

C3_Witness ==
  \E g \in GenIds :
    /\ gen[g].kind = "system" /\ status[g] = "open" /\ Len(out[g]) >= 2
    /\ Len(calls[g]) = 8
    /\ calls[g][3].args[1] # SV(g, Len(out[g]) - 1)[1]
    /\ calls[g][3].args[2] # SV(g, Len(out[g]) - 1)[2]

\* The sequence the caller's arguments ask for, pulled alone n times on a
\* heap of its own.
FreshFrame ==
  IF Catalogue[args.model_key].type = "single"
  THEN solve_single_ode_animated(built.fns[1], args.t0, args.ic[1], args.h,
                                 args.n_steps)
  ELSE solve_system_ode_animated(built.fns, args.t0, IcRef, args.h,
                                 args.n_steps)

RECURSIVE SoloRun(_, _, _, _)
SoloStep(n, smps, r) ==
  IF r.kind # "yield" THEN [hp |-> r.hp, smps |-> smps, end |-> r.err]
  ELSE SoloRun(r.fr, r.hp, n - 1, Append(smps, r.smp))

SoloRun(fr, hp, n, smps) ==
  IF n = 0 THEN [hp |-> hp, smps |-> smps, end |-> ""]
  ELSE SoloStep(n, smps, GenNext(fr, hp))

SoloValue(run, i) ==
  IF run.smps[i].ref = 0 THEN <<run.smps[i].x>> ELSE run.hp[run.smps[i].ref]

SameAsSolo(g, run) ==
  /\ Len(run.smps) = Len(out[g])
  /\ \A i \in 1..Len(out[g]) :
       out[g][i].t = run.smps[i].t /\ SV(g, i) = SoloValue(run, i)

\* C4: two sequences created from the same functions and the same
\* initial-condition list, pulled in any interleaving, have each yielded
\* exactly the samples the sequence yields when pulled alone, and the
\* caller's initial-condition list is unchanged.
C4_Independent ==
  /\ heap[IcRef] = args.ic
  /\ \A g \in GenIds :
       gen[g].pc # "none" =>
         SameAsSolo(g, SoloRun(FreshFrame, <<args.ic>>, Len(out[g]), <<>>))

C4_Witness ==
  /\ gen[1].kind = "system" /\ gen[2].kind = "system"
  /\ Len(out[1]) >= 3 /\ Len(out[2]) = 2
  /\ SV(1, 3) # SV(1, 1) /\ SV(2, 2) # SV(2, 1)

\* C6 (as the specification states it): a sequence requested with a negative
\* n_steps yields no sample and does not end as an exhausted sequence.
C6_NegativeRejected ==
  \A g \in GenIds :
    args.n_steps < 0 => (out[g] = <<>> /\ status[g] # "exhausted")

\* C7: a sequence requested with n_steps = 0 yields exactly one sample, equal
\* to (t0, x0), raises nothing, and is exhausted without a single call of a
\* right-hand side.
C7_ZeroSteps ==
  \A g \in GenIds :
    args.n_steps = 0 =>
      /\ ncalls[g] = 0
      /\ status[g] \in {"none", "open", "exhausted"}
      /\ Len(out[g]) <= 1
      /\ status[g] = "exhausted" =>
           /\ Len(out[g]) = 1
           /\ out[g][1].t = args.t0 /\ SV(g, 1) = X0(g)

C7_Witness ==
  /\ args.n_steps = 0
  /\ \E g \in GenIds :
       status[g] = "exhausted" /\ Len(out[g]) = 1 /\ ncalls[g] = 0

\* C8: two sequences run from the same functions, (t0, x0), h and n_steps
\* agree at every index both have reached, and once both have ended they
\* have ended the same way after the same number of samples.
Ended(g) == status[g] \notin {"none", "open"}

Provided == {args.parameters[i][1] : i \in 1..Len(args.parameters)}

LacksParameter ==
  /\ args.model_key \in DOMAIN Catalogue
  /\ \E i \in 1..Len(Catalogue[args.model_key].parameters) :
       Catalogue[args.model_key].parameters[i] \notin Provided

\* The environment that binds each name of the model to its own value.
Bindings(model_info, t, xs) ==
  [i \in 1..Len(model_info.variables) |-> <<model_info.variables[i], xs[i]>>]
    \o args.parameters \o << <<<<"t">>, t>> >>

\* C9 (as the specification states it): for a mapping that covers the
\* declared parameters, every built function evaluates, at (t0, x0), to the
\* value of its equation with each name bound to exactly its own value.
C9_BoundByName ==
  (built.done /\ built.err = "" /\ ~LacksParameter) =>
    \A j \in 1..Len(built.fns) :
      Call(built.fns[j], args.t0, args.ic) =
        Eval(Catalogue[args.model_key].equations[j],
             Bindings(Catalogue[args.model_key], args.t0, args.ic))

\* C10 (as the specification states it): with a mapping that lacks a declared
\* parameter the build fails, and no sample is produced.
C10_MissingRejected ==
  LacksParameter =>
    /\ built.done => built.err # ""
    /\ \A g \in GenIds : out[g] = <<>>

\* The state vector of the i-th sample the application has recorded.
PopAt(a, i) == [v \in 1..Len(a.population_data) |-> a.population_data[v][i]]

Paused == ~app.is_playing /\ app.current_step >= 1

\* The step taken leaves the run as it was and either records exactly one
\* more sample, the classical update of the last one recorded, or records
\* nothing because the right-hand side raised.
Continued ==
  /\ args' = args /\ built' = built
  /\ gen'[SolverGenerator].functions = gen[SolverGenerator].functions
  /\ \/ /\ status'[SolverGenerator] \notin {"open", "exhausted"}
        /\ app'.time_data = app.time_data
        /\ app'.population_data = app.population_data
     \/ /\ app'.time_data =
             Append(app.time_data,
                    RAdd(app.time_data[Len(app.time_data)], args.h))
        /\ \A i \in 1..Len(app.time_data) : PopAt(app', i) = PopAt(app, i)
        /\ PopAt(app', Len(app.time_data) + 1) =
             ClassicRK4(gen[SolverGenerator].functions, args.h,
                        app.time_data[Len(app.time_data)],
                        PopAt(app, Len(app.time_data)))

\* C5: when Start is pressed on a paused run (at least one sample pulled, not
\* stopped), the sequence is not created anew and the next sample recorded
\* is the one that follows the last sample recorded before the pause.
C5_ResumeContinues == [][(Paused /\ app'.last = "start") => Continued]_vars

C5_Witness ==
  /\ app.last = "start"
  /\ Len(app.time_data) >= 3
  /\ Len(app.population_data) >= 2
  /\ PopAt(app, 3) # PopAt(app, 2)

\* The identifiers an equation string refers to.
IdsOf(ts) == {ts[i].s : i \in {j \in 1..Len(ts) : ts[j].k = "id"}}

Identifiers(eq) == IdsOf(Tokenize(eq))

Declared(model_info) ==
  {<<"t">>}
    \cup {model_info.variables[i] : i \in 1..Len(model_info.variables)}
    \cup {model_info.parameters[i] : i \in 1..Len(model_info.parameters)}

AllDeclared(model_info) ==
  \A j \in 1..Len(model_info.equations) :
    Identifiers(model_info.equations[j]) \subseteq Declared(model_info)

Failed(g) == status[g] \notin {"none", "open", "exhausted"}

\* C11 (as the specification states it): once a function built from an
\* equation that refers to an undeclared symbol has been evaluated, the
\* sequence has failed with UndefinedSymbolError.
C11_UndefinedSymbol ==
  (args.model_key \in DOMAIN Catalogue
     /\ ~AllDeclared(Catalogue[args.model_key])) =>
    \A g \in GenIds : ncalls[g] > 0 => status[g] = "UndefinedSymbolError"

\* The last right-hand-side call of g divided by zero.
DividedByZero(g) ==
  /\ calls[g] # <<>>
  /\ Call(gen[g].functions[calls[g][Len(calls[g])].fn],
          calls[g][Len(calls[g])].t, calls[g][Len(calls[g])].args).err
       = "ZeroDivisionError"

\* C12 (as the specification states it): a sequence whose right-hand side
\* failed arithmetically has failed with EvaluationError.
C12_EvaluationError ==
  \A g \in GenIds : DividedByZero(g) => status[g] = "EvaluationError"

\* C13: a pull that fails in a right-hand-side evaluation adds no sample, and
\* changes neither a sample pulled before nor any list (so no state vector
\* is left with only some components advanced).
C13_FailedStepYieldsNothing ==
  [][\A g \in GenIds :
       (status[g] = "open" /\ Failed(g)') => (out'[g] = out[g] /\ heap' = heap)
    ]_vars

C13_Witness ==
  \E g \in GenIds :
    /\ gen[g].kind = "system" /\ status[g] = "ZeroDivisionError"
    /\ Len(out[g]) = 2 /\ Len(calls[g]) = 4
    /\ SV(g, 2) # SV(g, 1)

\* C14: no step changes a sample that was yielded before or the caller's
\* initial-condition list.
C14_SamplesNeverChange ==
  [][/\ heap'[IcRef] = heap[IcRef]
     /\ \A g \in GenIds : \A i \in 1..Len(out[g]) : SV(g, i)' = SV(g, i)
    ]_vars

C14_Witness ==
  \E g \in GenIds :
    /\ gen[g].kind = "system" /\ Len(out[g]) >= 3
    /\ SV(g, 1) = args.ic /\ heap[IcRef] = args.ic
    /\ SV(g, 2) # SV(g, 1) /\ SV(g, 3) # SV(g, 2)

\* C15: every model of the registry has as many equations as variables and
\* as many initial conditions as equations.
\* So the builder returns, for a model of the registry, one function per
\* variable.
C15_RegistryShapes ==
  /\ \A k \in DOMAIN Registry :
       /\ Len(Registry[k].variables) = Len(Registry[k].equations)
       /\ Len(Registry[k].equations) = Len(Registry[k].initial_conditions)
  /\ (built.done /\ built.err = "" /\ args.model_key \in DOMAIN Registry) =>
       Len(built.fns) = Len(Registry[args.model_key].variables)

C15_Witness ==
  \E g \in GenIds :
    /\ args.model_key = "sir" /\ Len(out[g]) >= 2
    /\ gen[g].n_vars = 3 /\ Len(gen[g].functions) = 3
    /\ Len(Registry[args.model_key].initial_conditions) = Len(args.ic)

\* C16: in every model of the registry, every identifier of every equation
\* is t, a declared variable or a declared parameter.  So a model of the
\* registry run with all its parameters never fails on an unknown name.
\* (The registry never changes: its equations are read in the states before
\* the build, with which every behaviour starts.)
C16_RegistryIdentifiers ==
  /\ ~built.done => \A k \in DOMAIN Registry : AllDeclared(Registry[k])
  /\ (args.model_key \in DOMAIN Registry /\ ~LacksParameter) =>
       \A g \in GenIds : status[g] # "NameError"

C16_Witness ==
  \E g \in GenIds :
    /\ args.model_key = "lotka_volterra" /\ ~LacksParameter
    /\ status[g] = "open" /\ ncalls[g] >= 8
    /\ Identifiers(Registry[args.model_key].equations[2])
         = {<<"c">>, <<"x">>, <<"y">>, <<"d">>}

\* C17 (as the specification states it): building the functions of a model
\* key that is not registered fails with UnknownModelError.
C17_UnknownModelError ==
  (built.done /\ args.model_key \notin DOMAIN Catalogue) =>
    built.err = "UnknownModelError"

\* The environment that binds the k-th name of `variables` to the k-th
\* positional state argument.
VarBindings(model_info, t, xs) ==
  [i \in 1..Len(model_info.variables) |-> <<model_info.variables[i], xs[i]>>]
    \o << <<<<"t">>, t>> >>

\* C18 (as the specification states it): the builder returns one function
\* per variable, and each function evaluates its (substituted) equation with
\* the k-th positional state argument bound to the k-th name of `variables`.
C18_PositionalBinding ==
  (built.done /\ built.err = "" /\ ~LacksParameter) =>
    /\ Len(built.fns) = Len(Catalogue[args.model_key].variables)
    /\ \A j \in 1..Len(built.fns) :
         Call(built.fns[j], args.t0, args.ic) =
           Eval(Substitute(Catalogue[args.model_key].equations[j],
                           args.parameters, 1),
                VarBindings(Catalogue[args.model_key], args.t0, args.ic))

ParamValue(name) ==
  args.parameters[CHOOSE i \in 1..Len(args.parameters) :
                    args.parameters[i][1] = name][2]

Total(v) == RAdd(RAdd(v[1], v[2]), v[3])

\* C19: in a SIR run that starts with S0 + I0 + R0 = N, S + I + R = N at every
\* sample (exactly, in exact arithmetic).
C19_SirConserved ==
  (args.model_key = "sir" /\ ~LacksParameter
     /\ Total(args.ic) = ParamValue(<<"N">>)) =>
    \A g \in GenIds : \A i \in 1..Len(out[g]) :
      Total(SV(g, i)) = ParamValue(<<"N">>)

C19_Witness ==
  \E g \in GenIds :
    /\ args.model_key = "sir" /\ Total(args.ic) = ParamValue(<<"N">>)
    /\ Len(out[g]) >= 2
    /\ SV(g, 2)[1] # SV(g, 1)[1] /\ SV(g, 2)[2] # SV(g, 1)[2]
    /\ SV(g, 2)[3] # SV(g, 1)[3]

\* C20 (as the specification states it): a sequence requested with h = 0 is
\* never advanced.
C20_ZeroStepRejected ==
  args.h = R(0) => \A g \in GenIds : Len(out[g]) <= 1

\* The system solver on the one-element lists [f] and [x0], for the f, t0, x0,
\* h and n_steps of the scalar sequence g, pulled alone n times.
SystemOfOne(g, n) ==
  SoloRun(solve_system_ode_animated(<<gen[g].functions[1]>>, gen[g].t0, IcRef,
                                    gen[g].h, gen[g].n_steps),
          <<<<gen[g].x0>>>>, n, <<>>)

EndOf(g) == IF status[g] = "exhausted" THEN "StopIteration" ELSE status[g]

\* C22: a scalar sequence has, at every index, the time and the state of the
\* system solver run on [f] and [x0], and ends where and as that one does.
C22_ScalarIsSystemOfOne ==
  \A g \in GenIds :
    (gen[g].kind = "single" /\ gen[g].pc # "none") =>
      /\ SameAsSolo(g, SystemOfOne(g, Len(out[g])))
      /\ Ended(g) => /\ SameAsSolo(g, SystemOfOne(g, Len(out[g]) + 1))
                      /\ SystemOfOne(g, Len(out[g]) + 1).end = EndOf(g)

C22_Witness ==
  \E g \in GenIds :
    /\ gen[g].kind = "single" /\ args.model_key = "linear"
    /\ status[g] = "exhausted" /\ Len(out[g]) >= 3
    /\ out[g][3].x # out[g][2].x /\ out[g][2].x # out[g][1].x

\* p occurs in s.
Occurs(p, s) == \E i \in 1..Len(s) : MatchAt(s, i, p)

\* No parameter name of the model occurs inside another parameter name, a
\* variable name or t.
CleanNames(model_info) ==
  \A i \in 1..Len(model_info.parameters) :
    /\ \A j \in 1..Len(model_info.parameters) :
         j # i => ~Occurs(model_info.parameters[i], model_info.parameters[j])
    /\ \A j \in 1..Len(model_info.variables) :
         ~Occurs(model_info.parameters[i], model_info.variables[j])
    /\ ~Occurs(model_info.parameters[i], <<"t">>)

\* No parameter name occurs inside the string of a value.
CleanValues ==
  \A i \in 1..Len(args.parameters) : \A k \in 1..Len(args.parameters) :
    ~Occurs(args.parameters[i][1], FloatStr(args.parameters[k][2]))

\* The points the built functions are compared at: (t0, x0) and a point
\* with pairwise different coordinates.
Shifted(xs) == [i \in 1..Len(xs) |-> RAdd(xs[i], R(i))]

Points == {<<args.t0, args.ic>>, <<RAdd(args.t0, R(1)), Shifted(args.ic)>>}

C21_AllSamplesCollected ==
  app.status_label = "finished" =>
    /\ Len(app.time_data) = app.max_steps + 1
    /\ app.time_data[Len(app.time_data)] = RMul(R(app.max_steps), args.h)

\* Start pressed with nothing running and the step counter at 0 either
\* fails to prepare and records nothing, or leaves exactly one sample: the
\* initial condition at time 0, the first of a new sequence.
FreshStart ==
  IF PrepareFails(app)
  THEN /\ app'.time_data = app.time_data
       /\ app'.population_data = app.population_data
  ELSE /\ app'.time_data = <<R(0)>>
       /\ \A v \in 1..Len(app'.population_data) :
            Len(app'.population_data[v]) = 1
       /\ PopAt(app', 1) = app.ic_entries
       /\ Len(out'[SolverGenerator]) = 1
       /\ gen'[SolverGenerator].i = 0

\* Stop, a run that finishes and a change to another model of the registry
\* leave the animation stopped with the step counter at 0.
Rewound ==
  (\/ app'.last \in {"stop", "model"}
   \/ app'.status_label = "finished"
   \/ /\ app'.last = "load"
      /\ app'.current_model # app.current_model
      /\ app'.current_model \in DOMAIN Registry)
    => (~app'.is_playing /\ app'.current_step = 0)

C24_OnePendingCallback == app.timers <= 1

\* C25 (as stated): a collected trajectory has one series per variable of
\* the selected model.
C25_DataOfCurrentModel ==
  app.population_data # <<>> =>
    /\ app.current_model \in DOMAIN Registry
    /\ Len(app.population_data) = Len(Registry[app.current_model].variables)

\* C26 (as stated): the selected model key is a key of the registry.
C26_ModelRegistered == app.current_model \in DOMAIN Registry

\* C27: when every pending callback eventually fires, a run that is playing
\* (its step count is then at least 1) eventually stops playing, with the
\* step counter back at 0 unless the user has just paused it.
C27_RunEnds ==
  (app.is_playing /\ app.max_steps >= 1)
    ~> (~app.is_playing /\ (app.current_step = 0 \/ app.last = "pause"))

C27_Witness ==
  /\ app.last = "tick" /\ app.status_label = "finished"
  /\ ~app.is_playing /\ app.current_step = 0
  /\ app.max_steps >= 2 /\ Len(app.time_data) = app.max_steps

\* C28 (as the specification states it): after Start with a duration shorter
\* than one step, the run has collected exactly the initial sample and shows
\* the finished state, not an error.
C28_ShortRunFinishes ==
  (app.last = "start" /\ built.done /\ app.max_steps = 0) =>
    (Len(app.time_data) = 1 /\ app.status_label = "finished")

=============================================================================
